---- MODULE Spec2Model ----
(***************************************************************************)
(* A model of go-http-client (src/client.go): the client profile           *)
(* (httpClient), the request composer (httpRequest), Submit with its       *)
(* redirect policy, and the response envelope (httpResponse).              *)
(*                                                                         *)
(* URLs, hosts, prefixes, paths and query keys/values are sequences of     *)
(* one-character strings, so that parsing and formatting are computed.     *)
(* Header names and values are atomic strings.                             *)
(***************************************************************************)
EXTENDS Integers, Sequences, FiniteSets, TLC

VARIABLES
    client,     \* the httpClient struct (src/client.go:32-41)
    req,        \* composer id -> httpRequest struct (src/client.go:345-358)
    call,       \* composer id -> the Submit call in progress on it, or its outcome
    sent,       \* composer id -> the outgoing call its last Submit built, until a setter runs
    renorm,     \* the last Host call was Host(GetHost()), and what GetHost returned
    raw,        \* the response the server gives: status, headers, body, whether reading it fails
    resp,       \* composer id -> what newHttpResponse made of the raw response of its call
    parsed      \* composer id -> the outcome of the last ParseAs on its envelope

vars == <<client, req, call, sent, renorm, raw, resp, parsed>>

(***************************************************************************)
(* Bounds                                                                  *)
(***************************************************************************)
MaxHostLen == 5      \* longest host string enumerated for normalization
MaxBudget == 2       \* largest redirect budget set on profile or composer
MaxChain == 3        \* most redirect responses one call may meet
MaxValues == 2       \* Submit runs while no key of the composer holds more values
MaxBody == 1         \* longest response body, in bytes

(***************************************************************************)
(* Strings as character sequences                                          *)
(***************************************************************************)
Letters == {"a", "b", "h", "o", "r", "v", "H"}
Digits == {"1", "2", "3"}
SchemeMarks == {"+", "-", "."}

\* strings.ToLower on one character
LowerChar(c) == IF c = "H" THEN "h" ELSE c

ToLower(s) == [i \in 1..Len(s) |-> LowerChar(s[i])]

\* strings.Index for a one-character separator: 1-based, 0 when absent
Index(s, c) ==
    IF \E i \in 1..Len(s) : s[i] = c
    THEN CHOOSE i \in 1..Len(s) : s[i] = c /\ \A j \in 1..(i-1) : s[j] # c
    ELSE 0

LastIndex(s, c) ==
    IF \E i \in 1..Len(s) : s[i] = c
    THEN CHOOSE i \in 1..Len(s) : s[i] = c /\ \A j \in (i+1)..Len(s) : s[j] # c
    ELSE 0

Count(s, c) == Cardinality({i \in 1..Len(s) : s[i] = c})

HasPrefix(s, p) == Len(s) >= Len(p) /\ SubSeq(s, 1, Len(p)) = p

From(s, i) == SubSeq(s, i, Len(s))

RECURSIVE TrimLeft(_, _)
TrimLeft(s, c) == IF Len(s) > 0 /\ s[1] = c THEN TrimLeft(Tail(s), c) ELSE s

RECURSIVE TrimRight(_, _)
TrimRight(s, c) ==
    IF Len(s) > 0 /\ s[Len(s)] = c THEN TrimRight(SubSeq(s, 1, Len(s) - 1), c) ELSE s

\* strings.Trim(s, c) for a one-character cutset
Trim(s, c) == TrimRight(TrimLeft(s, c), c)

\* strings.TrimSpace
TrimSpace(s) == Trim(s, " ")

\* strings.TrimPrefix(s, "/"): at most one leading slash goes
TrimPrefix(s, c) == IF Len(s) > 0 /\ s[1] = c THEN Tail(s) ELSE s

(***************************************************************************)
(* url.Parse, as far as the characters of the model reach: letters,        *)
(* digits, ':', '/', '?', '=', '&' and ' '.                                *)
(***************************************************************************)
ParseError == [err |-> TRUE, Scheme |-> <<>>, Host |-> <<>>, Path |-> <<>>,
               RawQuery |-> <<>>, Opaque |-> <<>>]

RECURSIVE SchemeScan(_, _)
SchemeScan(s, i) ==
    IF i > Len(s) THEN [err |-> FALSE, scheme |-> <<>>, rest |-> s]
    ELSE IF s[i] \in Letters THEN SchemeScan(s, i + 1)
    ELSE IF s[i] \in Digits \cup SchemeMarks
         THEN IF i = 1 THEN [err |-> FALSE, scheme |-> <<>>, rest |-> s]
                       ELSE SchemeScan(s, i + 1)
    ELSE IF s[i] = ":"
         THEN IF i = 1 THEN [err |-> TRUE, scheme |-> <<>>, rest |-> <<>>]
                       ELSE [err |-> FALSE, scheme |-> SubSeq(s, 1, i - 1),
                             rest |-> From(s, i + 1)]
    ELSE [err |-> FALSE, scheme |-> <<>>, rest |-> s]

\* net/url getScheme: "missing protocol scheme" when the string starts with ':'
getScheme(s) == SchemeScan(s, 1)

\* net/url validOptionalPort on the part of the authority from its last ':'
validOptionalPort(port) ==
    \/ port = <<>>
    \/ port[1] = ":" /\ \A i \in 2..Len(port) : port[i] \in Digits

\* net/url parseHost: the port must be digits, and a space is an invalid host character
validHost(authority) ==
    /\ \A i \in 1..Len(authority) : authority[i] # " "
    /\ LET i == LastIndex(authority, ":")
       IN  i = 0 \/ validOptionalPort(From(authority, i))

Parse(rawURL) ==
    LET g == getScheme(rawURL) IN
    IF g.err THEN ParseError
    ELSE
    LET scheme == ToLower(g.scheme)
        rest0 == g.rest
        force == Len(rest0) > 0 /\ rest0[Len(rest0)] = "?" /\ Count(rest0, "?") = 1
        q == Index(rest0, "?")
        rest == IF force THEN SubSeq(rest0, 1, Len(rest0) - 1)
                ELSE IF q = 0 THEN rest0 ELSE SubSeq(rest0, 1, q - 1)
        rawQuery == IF force \/ q = 0 THEN <<>> ELSE From(rest0, q + 1)
        slash == Index(rest, "/")
        segment == IF slash = 0 THEN rest ELSE SubSeq(rest, 1, slash - 1)
    IN
    IF ~HasPrefix(rest, <<"/">>) /\ scheme # <<>>
    THEN [err |-> FALSE, Scheme |-> scheme, Host |-> <<>>, Path |-> <<>>,
          RawQuery |-> rawQuery, Opaque |-> rest]
    ELSE IF ~HasPrefix(rest, <<"/">>) /\ Index(segment, ":") # 0
    THEN ParseError
    ELSE IF HasPrefix(rest, <<"/", "/">>)
    THEN LET a0 == From(rest, 3)
             i == Index(a0, "/")
             authority == IF i = 0 THEN a0 ELSE SubSeq(a0, 1, i - 1)
             path == IF i = 0 THEN <<>> ELSE From(a0, i)
         IN  IF validHost(authority)
             THEN [err |-> FALSE, Scheme |-> scheme, Host |-> authority,
                   Path |-> path, RawQuery |-> rawQuery, Opaque |-> <<>>]
             ELSE ParseError
    ELSE [err |-> FALSE, Scheme |-> scheme, Host |-> <<>>, Path |-> rest,
          RawQuery |-> rawQuery, Opaque |-> <<>>]

(***************************************************************************)
(* httpClient: the profile                                                 *)
(***************************************************************************)
\* httpClient.GetHost
GetHost(c) ==
    LET u == Parse(c.host)
    IN  IF u.err THEN <<>> ELSE u.Scheme \o <<":", "/", "/">> \o u.Host

\* httpClient.GetUrlPrefix
GetUrlPrefix(c) ==
    IF c.urlPrefix = <<>> THEN <<>> ELSE <<"/">> \o Trim(c.urlPrefix, "/")

(***************************************************************************)
(* Multi-valued maps (http.Header, url.Values).  A Go map is nil or a      *)
(* mapping from the keys present to their ordered value lists.             *)
(***************************************************************************)
NilMap == [nil |-> TRUE, m |-> <<>>]

EmptyMap == [nil |-> FALSE, m |-> <<>>]

MakeMap(f) == [nil |-> FALSE, m |-> f]

\* v[key] = append(v[key], value) on the mapping itself
AddTo(f, key, value) ==
    [k \in DOMAIN f \cup {key} |->
        IF k = key
        THEN (IF k \in DOMAIN f THEN Append(f[k], value) ELSE <<value>>)
        ELSE f[k]]

\* the values under key, empty when the key is absent
Values(f, key) == IF key \in DOMAIN f THEN f[key] ELSE <<>>

RECURSIVE AddEach(_, _, _)
AddEach(f, key, vs) ==
    IF vs = <<>> THEN f ELSE AddEach(AddTo(f, key, Head(vs)), key, Tail(vs))

\* every permutation of a finite set, as sequences: the orders a range over a map may take
RECURSIVE Perms(_)
Perms(S) ==
    IF S = {} THEN {<<>>}
    ELSE UNION {{<<x>> \o p : p \in Perms(S \ {x})} : x \in S}

(***************************************************************************)
(* Header names                                                            *)
(***************************************************************************)
\* textproto.CanonicalMIMEHeaderKey on the header names of the model
CanonicalMIMEHeaderKey(k) == IF k = "x-key" THEN "X-Key" ELSE k

\* http.Header.Add: the key is canonicalized, the value appended
HeaderAdd(f, key, value) == AddTo(f, CanonicalMIMEHeaderKey(key), value)

RECURSIVE HeaderAddEach(_, _, _)
HeaderAddEach(f, key, vs) ==
    IF vs = <<>> THEN f
    ELSE HeaderAddEach(HeaderAdd(f, key, Head(vs)), key, Tail(vs))

\* for k, v := range src { for _, each := range v { dst.Add(k, each) } }, keys in the given order
RECURSIVE HeaderMergeInOrder(_, _, _)
HeaderMergeInOrder(dst, src, order) ==
    IF order = <<>> THEN dst
    ELSE HeaderMergeInOrder(HeaderAddEach(dst, Head(order), src[Head(order)]),
                            src, Tail(order))

\* the results the merge can have: Go ranges over a map in no fixed order
HeaderMerges(dst, src) == {HeaderMergeInOrder(dst, src, o) : o \in Perms(DOMAIN src)}

(***************************************************************************)
(* Query strings: url.ParseQuery (as URL.Query uses it) and Values.Encode  *)
(***************************************************************************)
\* the byte order of the characters, for sorting keys
Code(c) ==
    CASE c = " " -> 32 [] c = "&" -> 38 [] c = "+" -> 43 [] c = "-" -> 45
      [] c = "." -> 46 [] c = "/" -> 47 [] c = "1" -> 49 [] c = "2" -> 50
      [] c = "3" -> 51 [] c = ":" -> 58 [] c = "=" -> 61 [] c = "?" -> 63
      [] c = "H" -> 72 [] c = "a" -> 97 [] c = "b" -> 98 [] c = "h" -> 104
      [] c = "o" -> 111 [] c = "r" -> 114 [] c = "v" -> 118

RECURSIVE Less(_, _)
Less(s, t) ==
    IF t = <<>> THEN FALSE
    ELSE IF s = <<>> THEN TRUE
    ELSE IF Code(s[1]) # Code(t[1]) THEN Code(s[1]) < Code(t[1])
    ELSE Less(Tail(s), Tail(t))

\* the keys of a map in sorted order (sort.Strings)
RECURSIVE SortedKeys(_)
SortedKeys(S) ==
    IF S = {} THEN <<>>
    ELSE LET least == CHOOSE x \in S : \A y \in S \ {x} : Less(x, y)
         IN  <<least>> \o SortedKeys(S \ {least})

\* url.QueryEscape on one character
EscapeChar(c) ==
    IF c \in Letters \cup Digits \cup {"-", "."} THEN <<c>>
    ELSE CASE c = " " -> <<"+">>
           [] c = "&" -> <<"%", "2", "6">>
           [] c = "+" -> <<"%", "2", "B">>
           [] c = "/" -> <<"%", "2", "F">>
           [] c = ":" -> <<"%", "3", "A">>
           [] c = "=" -> <<"%", "3", "D">>
           [] c = "?" -> <<"%", "3", "F">>

RECURSIVE QueryEscape(_)
QueryEscape(s) == IF s = <<>> THEN <<>> ELSE EscapeChar(s[1]) \o QueryEscape(Tail(s))

RECURSIVE EncodeKey(_, _, _)
EncodeKey(buf, key, vs) ==
    IF vs = <<>> THEN buf
    ELSE EncodeKey((IF buf = <<>> THEN <<>> ELSE buf \o <<"&">>)
                       \o QueryEscape(key) \o <<"=">> \o QueryEscape(Head(vs)),
                   key, Tail(vs))

RECURSIVE EncodeKeys(_, _, _)
EncodeKeys(buf, f, keys) ==
    IF keys = <<>> THEN buf
    ELSE EncodeKeys(EncodeKey(buf, Head(keys), f[Head(keys)]), f, Tail(keys))

\* url.Values.Encode: keys sorted, each key's values in their stored order
Encode(f) == EncodeKeys(<<>>, f, SortedKeys(DOMAIN f))

\* url.ParseQuery: split at '&', each piece cut at its first '='; empty pieces are skipped
RECURSIVE ParseQuery(_, _)
ParseQuery(f, query) ==
    IF query = <<>> THEN f
    ELSE LET amp == Index(query, "&")
             piece == IF amp = 0 THEN query ELSE SubSeq(query, 1, amp - 1)
             more == IF amp = 0 THEN <<>> ELSE From(query, amp + 1)
             eq == Index(piece, "=")
             key == IF eq = 0 THEN piece ELSE SubSeq(piece, 1, eq - 1)
             value == IF eq = 0 THEN <<>> ELSE From(piece, eq + 1)
         IN  IF piece = <<>> THEN ParseQuery(f, more)
             ELSE ParseQuery(AddTo(f, key, value), more)

\* URL.Query()
Query(u) == ParseQuery(<<>>, u.RawQuery)

\* for k, v := range src { for _, each := range v { dst.Add(k, each) } } on url.Values:
\* the keys are distinct and used as given, so the order of the range does not matter
RECURSIVE ValuesMergeKeys(_, _, _)
ValuesMergeKeys(dst, src, keys) ==
    IF keys = <<>> THEN dst
    ELSE ValuesMergeKeys(AddEach(dst, Head(keys), src[Head(keys)]), src, Tail(keys))

\* a merge that sets instead of adding: the source's values replace the key's own
ValuesMergeReplacing(dst, src) == [k \in DOMAIN dst \cup DOMAIN src |->
                                      IF k \in DOMAIN src THEN src[k] ELSE dst[k]]

ValuesMerge(dst, src) == ValuesMergeKeys(dst, src, SortedKeys(DOMAIN src))

(***************************************************************************)
(* httpRequest: the composer                                               *)
(***************************************************************************)
Unset == [set |-> FALSE, v |-> 0]

Ptr(x) == [set |-> TRUE, v |-> x]

\* NewHttpRequest: fresh header and query maps, nothing overridden
NewHttpRequest ==
    [userAgent |-> Unset, maxRedirects |-> Unset,
     headers |-> EmptyMap, queries |-> EmptyMap,
     skipDefaultQueries |-> FALSE, skipDefaultHeaders |-> FALSE,
     path |-> <<>>]

Idle == [st |-> "idle", budget |-> 0, hops |-> 0]

NoCall == [has |-> FALSE, url |-> <<>>, header |-> <<>>]

HasValues(f) == \E k \in DOMAIN f : f[k] # <<>>

\* the redirect budget Submit seeds its counter with
EffectiveMaxRedirects(r, cl) ==
    IF r.maxRedirects.set THEN r.maxRedirects.v ELSE cl.maxRedirects

\* the User-Agent value Submit adds to the composer's headers, if any
UserAgentToAdd(r, cl) ==
    IF r.userAgent.set THEN <<r.userAgent.v>>
    ELSE IF cl.userAgent # "" THEN <<cl.userAgent>>
    ELSE <<>>

\* the default queries Submit merges
DefaultQueriesToMerge(r, cl) ==
    IF r.skipDefaultQueries THEN <<>> ELSE cl.defaultQueries.m

\* the default headers Submit merges
DefaultHeadersToMerge(r, cl) ==
    IF r.skipDefaultHeaders THEN <<>> ELSE cl.defaultHeaders.m

\* fmt.Sprintf("%s%s%s%s", host, prefix, path, qp)
AssembleUrl(host, prefix, path, qp) == host \o prefix \o path \o qp

\* Submit up to client.Do: every way the composition can end.  queries and headers are
\* the composer's own maps afterwards (Submit works on them, not on copies).
Compose(r, cl) ==
    LET hasPath == r.path # <<>>
        u == Parse(TrimPrefix(r.path, "/"))
    IN
    IF hasPath /\ u.err
    THEN {[outcome |-> "MalformedPath", queries |-> r.queries, headers |-> r.headers,
           out |-> NoCall]}
    ELSE
    LET host == IF hasPath /\ u.Host # <<>>
                THEN u.Scheme \o <<":", "/", "/">> \o u.Host
                ELSE GetHost(cl)
        prefix == GetUrlPrefix(cl)
        pq == IF hasPath THEN Query(u) ELSE <<>>
        path == IF hasPath THEN <<"/">> \o u.Path ELSE <<>>
        dq == DefaultQueriesToMerge(r, cl)
        q == ValuesMerge(ValuesMerge(r.queries.m, pq), dq)
        qp == IF DOMAIN q = {} THEN <<>> ELSE <<"?">> \o Encode(q)
        url == AssembleUrl(host, prefix, path, qp)
        ua == UserAgentToAdd(r, cl)
        h1 == HeaderAddEach(r.headers.m, "User-Agent", ua)
        dh == DefaultHeadersToMerge(r, cl)
    IN
    IF r.queries.nil /\ (HasValues(pq) \/ HasValues(dq))
    THEN {[outcome |-> "panic", queries |-> r.queries, headers |-> r.headers,
           out |-> NoCall]}
    ELSE IF Parse(url).err
    THEN {[outcome |-> "RequestError", queries |-> [r.queries EXCEPT !.m = q],
           headers |-> r.headers, out |-> NoCall]}
    ELSE IF r.headers.nil /\ (ua # <<>> \/ HasValues(dh))
    THEN {[outcome |-> "panic", queries |-> [r.queries EXCEPT !.m = q],
           headers |-> r.headers, out |-> NoCall]}
    ELSE {[outcome |-> "sent", queries |-> [r.queries EXCEPT !.m = q],
           headers |-> [r.headers EXCEPT !.m = h2],
           out |-> [has |-> TRUE, url |-> url, header |-> hdr]] :
            <<h2, hdr>> \in UNION {{<<m, o>> : o \in HeaderMerges(<<>>, m)} :
                                   m \in HeaderMerges(h1, dh)}}

(***************************************************************************)
(* httpResponse: the envelope                                              *)
(***************************************************************************)
NoEnvelope == [statusCode |-> 0, body |-> <<>>, headers |-> <<>>]

NoResponse == [st |-> "none", env |-> NoEnvelope, closes |-> 0]

NotParsed == [done |-> FALSE, dest |-> "nil", err |-> ""]

\* strings.ToLower on the header names of the model
LowerKey(k) ==
    CASE k = "Content-Type" -> "content-type"
      [] k = "X-Key" -> "x-key"
      [] OTHER -> k

\* newHttpResponse: the envelope or the read error, and how often the body was closed
newHttpResponse(response) ==
    IF response.readErr
    THEN [st |-> "error", env |-> NoEnvelope, closes |-> 0]
    ELSE [st |-> "built",
          env |-> [statusCode |-> response.StatusCode,
                   body |-> response.body,
                   headers |-> [k \in {LowerKey(h) : h \in DOMAIN response.Header} |->
                                  response.Header[CHOOSE h \in DOMAIN response.Header :
                                                      LowerKey(h) = k]]],
          closes |-> 1]

\* httpResponse.GetHeader: the first value under the lowercased key
GetHeader(e, key) ==
    IF LowerKey(key) \in DOMAIN e.headers
    THEN [ok |-> TRUE, v |-> e.headers[LowerKey(key)][1]]
    ELSE [ok |-> FALSE, v |-> ""]

\* httpResponse.IsJsonResponse
IsJsonResponse(e) ==
    LET h == GetHeader(e, "content-type")
    IN  h.ok /\ h.v = "application/json"

\* the targets a caller may hand to ParseAs: nil, a non-pointer value, a pointer that
\* does not implement json.Unmarshaler, a pointer that does
Dests == {"nil", "value", "pointer", "unmarshaler"}

\* ParseAs with the content type checked before the body's length
ParseAsErrorsTypeFirst(e, dest) ==
    IF dest = "nil" THEN {"dest is nil"}
    ELSE IF ~IsJsonResponse(e) THEN {"not a json response"}
    ELSE IF Len(e.body) = 0 THEN {"body is empty"}
    ELSE IF dest = "value" THEN {"dest is not a pointer"}
    ELSE IF dest # "unmarshaler" THEN {"dest does not implement json.Unmarshaler"}
    ELSE {"", "unmarshal error"}

\* httpResponse.ParseAs: the errors it can return ("" for success); json.Unmarshal
\* itself may succeed or fail
ParseAsErrors(e, dest) ==
    IF dest = "nil" THEN {"dest is nil"}
    ELSE IF Len(e.body) = 0 THEN {"body is empty"}
    ELSE IF dest = "value" THEN {"dest is not a pointer"}
    ELSE IF ~IsJsonResponse(e) THEN {"not a json response"}
    ELSE IF dest # "unmarshaler" THEN {"dest does not implement json.Unmarshaler"}
    ELSE {"", "unmarshal error"}

\* a caller parses the envelope its Submit returned
ParseAs(c, dest) ==
    /\ resp[c].st = "built"
    /\ \E e \in ParseAsErrors(resp[c].env, dest) :
          parsed' = [parsed EXCEPT ![c] = [done |-> TRUE, dest |-> dest, err |-> e]]
    /\ UNCHANGED <<client, req, call, sent, renorm, raw, resp>>

(***************************************************************************)
(* Inputs                                                                  *)
(***************************************************************************)
Str_hostA == <<"h", ":", "/", "/", "a">>

Str_v == <<"/", "v", "/">>

PathInputs ==
    { <<>>,
      <<" ", "/", "r", "?", "a", "=", "1">>,
      <<"h", ":", "/", "/", "o", "/", "r", "?", "a", "=", "1">>,
      <<":">> }

HeaderInputs == {NilMap, MakeMap("x-key" :> <<"c1">>)}

QueryInputs == {NilMap, MakeMap(<<"a">> :> << <<"3">> >>)}

DefaultHeaderInputs ==
    { MakeMap("X-Key" :> <<"d1">>),
      MakeMap(("X-Key" :> <<"d1">>) @@ ("X-Dflt" :> <<"d2">>)) }

DefaultQueryInputs ==
    { MakeMap(<<"a">> :> << <<"2">> >>),
      MakeMap((<<"a">> :> << <<"2">> >>) @@ (<<"b">> :> << <<"2">> >>)) }

HostAlphabet == {"h", "1", ":", "/"}

RECURSIVE Strings(_, _)
Strings(A, n) ==
    IF n = 0 THEN {<<>>}
    ELSE LET shorter == Strings(A, n - 1)
         IN  shorter \cup {Append(s, c) : s \in {t \in shorter : Len(t) = n - 1}, c \in A}

HostInputs ==
    { <<" ", "H", ":", "/", "/", "a", "/", "r", " ">>,
      <<"a", ":", "1">>,
      <<"h", ":", "/", "/", "a", " ", "b">> }

(***************************************************************************)
(* The profile's setters                                                   *)
(***************************************************************************)
Composers == DOMAIN req

NoneInFlight == \A c \in Composers : call[c].st # "inflight"

\* a change of configuration ends what was known of earlier submissions
Forget == /\ call' = [c \in Composers |-> Idle]
          /\ sent' = [c \in Composers |-> NoCall]
          /\ resp' = [c \in Composers |-> NoResponse]
          /\ parsed' = [c \in Composers |-> NotParsed]

\* NewHttpClient: the configuration's values, fresh empty default maps
NewHttpClient(config) ==
    [host |-> config.Host, urlPrefix |-> config.UrlPrefix,
     maxRedirects |-> config.MaxRedirects, timeout |-> config.Timeout,
     userAgent |-> config.UserAgent,
     defaultHeaders |-> EmptyMap, defaultQueries |-> EmptyMap]

\* httpClient.Host
Host(host) ==
    /\ NoneInFlight
    /\ client' = [client EXCEPT !.host = TrimSpace(host)]
    /\ renorm' = [has |-> TRUE, arg |-> host, before |-> GetHost(client)]
    /\ Forget
    /\ UNCHANGED <<req, raw>>

\* httpClient.WithDefaultHeaders
WithDefaultHeaders(headers) ==
    /\ NoneInFlight
    /\ client' = [client EXCEPT !.defaultHeaders = headers]
    /\ Forget
    /\ UNCHANGED <<req, renorm, raw>>

\* httpClient.WithDefaultQueries
WithDefaultQueries(queries) ==
    /\ NoneInFlight
    /\ client' = [client EXCEPT !.defaultQueries = queries]
    /\ Forget
    /\ UNCHANGED <<req, renorm, raw>>

(***************************************************************************)
(* The composer's setters                                                  *)
(***************************************************************************)
\* a setter on composer c: it runs between Submit calls, and replaces c's struct by r
Set(c, r) ==
    /\ call[c].st # "inflight"
    /\ req' = [req EXCEPT ![c] = r]
    /\ call' = [call EXCEPT ![c] = Idle]
    /\ sent' = [sent EXCEPT ![c] = NoCall]
    /\ resp' = [resp EXCEPT ![c] = NoResponse]
    /\ parsed' = [parsed EXCEPT ![c] = NotParsed]
    /\ UNCHANGED <<client, renorm, raw>>

\* httpRequest.UserAgent
RequestUserAgent(c, ua) == Set(c, [req[c] EXCEPT !.userAgent = Ptr(ua)])

\* httpRequest.MaxRedirects
RequestMaxRedirects(c, mr) == Set(c, [req[c] EXCEPT !.maxRedirects = Ptr(mr)])

\* httpRequest.NoRedirect
NoRedirect(c) == Set(c, [req[c] EXCEPT !.maxRedirects = Ptr(0)])

\* httpRequest.Headers
Headers(c, headers) == Set(c, [req[c] EXCEPT !.headers = headers])

\* httpRequest.AddHeader: http.Header.Add on the composer's map; a nil map panics
AddHeader(c, key, value) ==
    /\ Len(Values(req[c].headers.m, CanonicalMIMEHeaderKey(key))) < MaxValues
    /\ IF req[c].headers.nil
       THEN /\ call[c].st # "inflight"
            /\ call' = [call EXCEPT ![c] = [Idle EXCEPT !.st = "panic"]]
            /\ sent' = [sent EXCEPT ![c] = NoCall]
            /\ resp' = [resp EXCEPT ![c] = NoResponse]
            /\ parsed' = [parsed EXCEPT ![c] = NotParsed]
            /\ UNCHANGED <<client, req, renorm, raw>>
       ELSE Set(c, [req[c] EXCEPT !.headers.m = HeaderAdd(@, key, value)])

\* httpRequest.SkipDefaultHeaders
SkipDefaultHeaders(c) == Set(c, [req[c] EXCEPT !.skipDefaultHeaders = TRUE])

\* httpRequest.Queries
Queries(c, queries) == Set(c, [req[c] EXCEPT !.queries = queries])

\* httpRequest.SkipDefaultQueries
SkipDefaultQueries(c) == Set(c, [req[c] EXCEPT !.skipDefaultQueries = TRUE])

\* httpRequest.Path
Path(c, p) == Set(c, [req[c] EXCEPT !.path = TrimSpace(p)])

(***************************************************************************)
(* Submit                                                                  *)
(***************************************************************************)
\* no key of the map holds more than n values
Within(f, n) == \A k \in DOMAIN f : Len(f[k]) <= n

\* a Submit that merges into the profile's default queries instead of the composer's map
SubmitIntoDefaults(c) ==
    /\ call[c].st # "inflight"
    /\ Within(req[c].headers.m, MaxValues) /\ Within(req[c].queries.m, MaxValues)
    /\ \E res \in Compose(req[c], client) :
          /\ req' = [req EXCEPT ![c].headers = res.headers]
          /\ client' = [client EXCEPT !.defaultQueries.m = res.queries.m]
          /\ sent' = [sent EXCEPT ![c] = res.out]
          /\ call' = [call EXCEPT ![c] =
                IF res.outcome = "sent"
                THEN [st |-> "inflight",
                      budget |-> EffectiveMaxRedirects(req[c], client), hops |-> 0]
                ELSE [Idle EXCEPT !.st = res.outcome]]
    /\ resp' = [resp EXCEPT ![c] = NoResponse]
    /\ parsed' = [parsed EXCEPT ![c] = NotParsed]
    /\ UNCHANGED <<renorm, raw>>

\* Submit, from its first line to the call of client.Do
Submit(c) ==
    /\ call[c].st # "inflight"
    /\ Within(req[c].headers.m, MaxValues) /\ Within(req[c].queries.m, MaxValues)
    /\ \E res \in Compose(req[c], client) :
          /\ req' = [req EXCEPT ![c].queries = res.queries, ![c].headers = res.headers]
          /\ sent' = [sent EXCEPT ![c] = res.out]
          /\ call' = [call EXCEPT ![c] =
                IF res.outcome = "sent"
                THEN [st |-> "inflight",
                      budget |-> EffectiveMaxRedirects(req[c], client), hops |-> 0]
                ELSE [Idle EXCEPT !.st = res.outcome]]
    /\ resp' = [resp EXCEPT ![c] = NoResponse]
    /\ parsed' = [parsed EXCEPT ![c] = NotParsed]
    /\ UNCHANGED <<client, renorm, raw>>

\* a CheckRedirect that lets a hop pass on a counter of zero
CheckRedirectOffByOne(c) ==
    /\ call[c].st = "inflight"
    /\ call[c].hops < MaxChain
    /\ call' = [call EXCEPT ![c] =
          IF call[c].budget < 0
          THEN [@ EXCEPT !.st = "TooManyRedirects", !.budget = 0]
          ELSE [@ EXCEPT !.budget = @ - 1, !.hops = @ + 1]]
    /\ UNCHANGED <<client, req, sent, renorm, raw, resp, parsed>>

\* a CheckRedirect that counts on the profile's max-redirects field
CheckRedirectOnProfile(c) ==
    /\ call[c].st = "inflight"
    /\ call[c].hops < MaxChain
    /\ IF client.maxRedirects <= 0
       THEN /\ call' = [call EXCEPT ![c] = [@ EXCEPT !.st = "TooManyRedirects", !.budget = 0]]
            /\ UNCHANGED client
       ELSE /\ call' = [call EXCEPT ![c] = [@ EXCEPT !.hops = @ + 1]]
            /\ client' = [client EXCEPT !.maxRedirects = @ - 1]
    /\ UNCHANGED <<req, sent, renorm, raw, resp, parsed>>

\* the CheckRedirect closure, called by client.Do on each redirect response
CheckRedirect(c) ==
    /\ call[c].st = "inflight"
    /\ call[c].hops < MaxChain
    /\ call' = [call EXCEPT ![c] =
          IF call[c].budget <= 0
          THEN [@ EXCEPT !.st = "TooManyRedirects", !.budget = 0]
          ELSE [@ EXCEPT !.budget = @ - 1, !.hops = @ + 1]]
    /\ UNCHANGED <<client, req, sent, renorm, raw, resp, parsed>>

\* client.Do returns an error of the transport's own
TransportError(c) ==
    /\ call[c].st = "inflight"
    /\ call' = [call EXCEPT ![c] = [@ EXCEPT !.st = "TransportError", !.budget = 0]]
    /\ UNCHANGED <<client, req, sent, renorm, raw, resp, parsed>>

\* client.Do returns the server's response; Submit returns newHttpResponse of it
DoReturns(c) ==
    /\ call[c].st = "inflight"
    /\ resp' = [resp EXCEPT ![c] = newHttpResponse(raw)]
    /\ call' = [call EXCEPT ![c] =
          [@ EXCEPT !.st = IF resp'[c].st = "built" THEN "ok" ELSE "ReadError",
                    !.budget = 0]]
    /\ UNCHANGED <<client, req, sent, renorm, raw, parsed>>

(***************************************************************************)
(* Specifications                                                          *)
(***************************************************************************)
JsonResponse ==
    [StatusCode |-> 200, Header |-> ("Content-Type" :> <<"application/json">>),
     body |-> <<"x">>, readErr |-> FALSE]

RECURSIVE Bytes(_)
Bytes(n) == IF n = 0 THEN <<>> ELSE Append(Bytes(n - 1), "x")

RawResponses ==
    [StatusCode : {200, 404, 500},
     Header : { <<>>,
                "Content-Type" :> <<"application/json">>,
                "Content-Type" :> <<"application/json; charset=utf-8">>,
                "Content-Type" :> <<"text/plain", "application/json">> },
     body : {Bytes(n) : n \in 0..MaxBody},
     readErr : BOOLEAN]

Config(host, prefix, mr, ua) ==
    [Host |-> host, UrlPrefix |-> prefix, MaxRedirects |-> mr, Timeout |-> 60,
     UserAgent |-> ua]

\* the state after NewHttpClient(config) and NewHttpRequest on each composer of C
Start(config, C) ==
    /\ client = NewHttpClient(config)
    /\ req = [c \in C |-> NewHttpRequest]
    /\ call = [c \in C |-> Idle]
    /\ sent = [c \in C |-> NoCall]
    /\ resp = [c \in C |-> NoResponse]
    /\ parsed = [c \in C |-> NotParsed]
    /\ renorm = [has |-> FALSE, arg |-> <<>>, before |-> <<>>]

\* one composer on a profile with or without prefix and user agent: paths, queries, URLs
Init ==
    /\ \E prefix \in {<<>>, Str_v}, ua \in {"", "ua"} :
          Start(Config(Str_hostA, prefix, 0, ua), {1})
    /\ raw = JsonResponse

Next ==
    \/ \E q \in DefaultQueryInputs : WithDefaultQueries(q)
    \/ \E c \in Composers, p \in PathInputs : Path(c, p)
    \/ \E c \in Composers, q \in QueryInputs : Queries(c, q)
    \/ \E c \in Composers : SkipDefaultQueries(c)
    \/ \E c \in Composers : Submit(c)
    \/ \E c \in Composers : CheckRedirect(c)
    \/ \E c \in Composers : TransportError(c)
    \/ \E c \in Composers : DoReturns(c)

Spec == Init /\ [][Next]_vars

\* one composer on a profile with or without user agent: headers
InitHeaders ==
    /\ \E ua \in {"", "ua"} : Start(Config(Str_hostA, <<>>, 0, ua), {1})
    /\ raw = JsonResponse

NextHeaders ==
    \/ \E h \in DefaultHeaderInputs : WithDefaultHeaders(h)
    \/ \E c \in Composers, h \in HeaderInputs : Headers(c, h)
    \/ \E c \in Composers : AddHeader(c, "X-Key", "c2")
    \/ \E c \in Composers : SkipDefaultHeaders(c)
    \/ \E c \in Composers : RequestUserAgent(c, "u2")
    \/ \E c \in Composers : Submit(c)
    \/ \E c \in Composers : CheckRedirect(c)
    \/ \E c \in Composers : TransportError(c)
    \/ \E c \in Composers : DoReturns(c)

SpecHeaders == InitHeaders /\ [][NextHeaders]_vars

\* two composers of one profile, submitting concurrently under redirects
InitRedirect ==
    /\ \E mr \in 0..MaxBudget : Start(Config(Str_hostA, <<>>, mr, ""), {1, 2})
    /\ raw = JsonResponse

NextRedirect ==
    \/ \E c \in Composers, mr \in 0..MaxBudget : RequestMaxRedirects(c, mr)
    \/ \E c \in Composers : NoRedirect(c)
    \/ \E c \in Composers : Submit(c)
    \/ \E c \in Composers : CheckRedirect(c)
    \/ \E c \in Composers : TransportError(c)
    \/ \E c \in Composers : DoReturns(c)

SpecRedirect == InitRedirect /\ [][NextRedirect]_vars

\* the profile alone: every stored host string, renormalized
InitHost ==
    /\ \E h \in Strings(HostAlphabet, MaxHostLen) : Start(Config(h, <<>>, 0, ""), {})
    /\ raw = JsonResponse

NextHost == \E h \in HostInputs \cup {GetHost(client)} : Host(h)

SpecHost == InitHost /\ [][NextHost]_vars

\* one submission per server response, and ParseAs on the envelope
InitResponse ==
    /\ Start(Config(Str_hostA, <<>>, 0, ""), {1})
    /\ raw \in RawResponses

NextResponse ==
    \/ \E c \in Composers : Submit(c)
    \/ \E c \in Composers : CheckRedirect(c)
    \/ \E c \in Composers : TransportError(c)
    \/ \E c \in Composers : DoReturns(c)
    \/ \E c \in Composers, dest \in Dests : ParseAs(c, dest)

SpecResponse == InitResponse /\ [][NextResponse]_vars

(***************************************************************************)
(* Properties                                                              *)
(***************************************************************************)
\* the step builds and sends the outgoing call of a Submit on composer c
Sends(c) == call[c].st # "inflight" /\ call'[c].st = "inflight"

\* the redirect budget in force for composer c: its override if set, else the profile's
BudgetOf(c) ==
    IF req[c].maxRedirects.set THEN req[c].maxRedirects.v ELSE client.maxRedirects

\* the part of a URL before its first '?', and the values its query string holds under a key
BeforeQuery(url) ==
    IF Index(url, "?") = 0 THEN url ELSE SubSeq(url, 1, Index(url, "?") - 1)

AfterQuery(url) == IF Index(url, "?") = 0 THEN <<>> ELSE From(url, Index(url, "?") + 1)

UrlValues(url, key) == Values(ParseQuery(<<>>, AfterQuery(url)), key)

QueryKeys == {<<"a">>, <<"b">>}

\* C1: with redirect budget N, a call in flight has taken at most N hops and has N minus
\* those hops left; TooManyRedirects comes exactly when a redirect response meets N hops
\* taken (the (N+1)-th redirect; with N = 0 the first, no hop taken); a call that ends
\* otherwise has followed every redirect it met, at most N.
C1_RedirectBudget ==
    \A c \in Composers :
        sent[c].has =>
            /\ call[c].hops <= BudgetOf(c)
            /\ call[c].st = "inflight" => call[c].budget = BudgetOf(c) - call[c].hops
            /\ call[c].st = "TooManyRedirects" => call[c].hops = BudgetOf(c)

\* one call succeeded after following all of its N >= 1 redirects while another, with
\* N = 0, failed on its first redirect without a hop
C1_Witness ==
    \E c, d \in Composers :
        /\ sent[c].has /\ call[c].st = "ok"
        /\ call[c].hops = BudgetOf(c) /\ BudgetOf(c) >= 1
        /\ sent[d].has /\ call[d].st = "TooManyRedirects"
        /\ BudgetOf(d) = 0 /\ call[d].hops = 0

\* C2: every Submit seeds its own counter with its effective budget; a step of one
\* composer's call (a hop, a failure, a return) leaves every other call's counter and
\* hops alone; and no step of a call changes the profile's max-redirects or any
\* composer's override.
C2_CounterPrivate ==
    [][\A c \in Composers :
          /\ Sends(c) => call'[c].budget = BudgetOf(c) /\ call'[c].hops = 0
          /\ (call'[c] # call[c] /\ (Sends(c) \/ call[c].st = "inflight")) =>
                /\ \A d \in Composers \ {c} : call'[d] = call[d]
                /\ client'.maxRedirects = client.maxRedirects
                /\ \A d \in Composers : req'[d].maxRedirects = req[d].maxRedirects]_vars

\* two calls of one profile in flight at once, one with hops taken, the other with its
\* whole budget left
C2_Witness ==
    \E c, d \in Composers :
        /\ c # d
        /\ call[c].st = "inflight" /\ call[c].hops >= 1
        /\ call[d].st = "inflight" /\ call[d].hops = 0
        /\ call[d].budget = BudgetOf(d) /\ BudgetOf(d) >= 1

\* the composer's path is an absolute URL: it has a scheme and an authority
AbsolutePath(c) ==
    LET u == Parse(TrimPrefix(req[c].path, "/"))
    IN  req[c].path # <<>> /\ ~u.err /\ u.Scheme # <<>> /\ u.Host # <<>>

\* C3: a Submit on an absolute-URL path sends a URL made of that URL's scheme://host and
\* "/" + its path, without the profile's host or prefix, and carrying the path's own
\* query values.
C3_AbsoluteUrlOverridesHostAndPrefix ==
    [][\A c \in Composers :
          (Sends(c) /\ AbsolutePath(c)) =>
              LET u == Parse(TrimPrefix(req[c].path, "/"))
              IN  /\ BeforeQuery(sent'[c].url) =
                        u.Scheme \o <<":", "/", "/">> \o u.Host \o <<"/">> \o u.Path
                  /\ \A k \in DOMAIN Query(u) :
                        \E i \in 1..Len(UrlValues(sent'[c].url, k)) :
                            UrlValues(sent'[c].url, k)[i] = Query(u)[k][1]]_vars

\* C4: for every key, the query string a Submit sends holds the composer's values, then
\* the values of the path's own query, then (unless skipped) the profile's defaults.
C4_QueryMergeAdditive ==
    [][\A c \in Composers :
          Sends(c) =>
              \A k \in QueryKeys :
                  UrlValues(sent'[c].url, k) =
                      Values(req[c].queries.m, k)
                      \o Values(ParseQuery(<<>>, AfterQuery(req[c].path)), k)
                      \o (IF req[c].skipDefaultQueries THEN <<>>
                          ELSE Values(client.defaultQueries.m, k))]_vars

\* a call was sent whose query holds, under one key, a composer value, then the path's
\* value, then the default
C4_Witness ==
    \E c \in Composers :
        /\ sent[c].has
        /\ UrlValues(sent[c].url, <<"a">>) = << <<"3">>, <<"1">>, <<"2">> >>

\* C5: a Submit on a composer with skip-default-headers set sends none of the values of
\* the profile's default headers.
C5_SkipDefaultHeaders ==
    [][\A c \in Composers :
          (Sends(c) /\ req[c].skipDefaultHeaders) =>
              \A k \in DOMAIN client.defaultHeaders.m :
                  \A i \in 1..Len(client.defaultHeaders.m[k]) :
                      \A j \in 1..Len(Values(sent'[c].header, CanonicalMIMEHeaderKey(k))) :
                          sent'[c].header[CanonicalMIMEHeaderKey(k)][j]
                              # client.defaultHeaders.m[k][i]]_vars

\* the step is a composer operation or a Submit (with its transport steps) on composer c
ComposerStep(c) ==
    \/ \E p \in PathInputs : Path(c, p)
    \/ \E q \in QueryInputs : Queries(c, q)
    \/ SkipDefaultQueries(c)
    \/ \E h \in HeaderInputs : Headers(c, h)
    \/ AddHeader(c, "X-Key", "c2")
    \/ SkipDefaultHeaders(c)
    \/ RequestUserAgent(c, "u2")
    \/ \E mr \in 0..MaxBudget : RequestMaxRedirects(c, mr)
    \/ NoRedirect(c)
    \/ Submit(c)
    \/ CheckRedirect(c)
    \/ TransportError(c)
    \/ DoReturns(c)

C7_EmptyBodyAlways ==
    \A c \in Composers :
        (parsed[c].done /\ Len(resp[c].env.body) = 0) => parsed[c].err = "body is empty"

\* C7 amended: ParseAs with a non-nil target on an empty body returns "body is empty"
\* whatever the content type; and each error names its own condition: "dest is nil" the
\* nil target alone, "body is empty" an empty body, the two shape errors a target of the
\* wrong shape, "not a json response" a content type that is not JSON.
C7_EmptyBodyNonNil ==
    \A c \in Composers :
        parsed[c].done =>
            /\ (parsed[c].dest # "nil" /\ Len(resp[c].env.body) = 0)
                  => parsed[c].err = "body is empty"
            /\ parsed[c].err = "dest is nil" <=> parsed[c].dest = "nil"
            /\ parsed[c].err = "body is empty" => Len(resp[c].env.body) = 0
            /\ parsed[c].err \in {"dest is not a pointer",
                                  "dest does not implement json.Unmarshaler"}
                  => parsed[c].dest \in {"value", "pointer"}
            /\ parsed[c].err = "not a json response" => ~IsJsonResponse(resp[c].env)

\* ParseAs returned "body is empty" for a pointer target on an empty body that is not JSON
C7_Witness ==
    \E c \in Composers :
        /\ parsed[c].done /\ parsed[c].dest = "pointer"
        /\ Len(resp[c].env.body) = 0 /\ ~IsJsonResponse(resp[c].env)
        /\ parsed[c].err = "body is empty"

\* C8: after Host(GetHost()), GetHost returns what it returned before.
C8_HostIdempotent ==
    (renorm.has /\ renorm.arg = renorm.before) => GetHost(client) = renorm.before

\* C9: a Submit leaves the composer's header and query maps as they were, and a Submit
\* that follows another with no setter in between sends the same URL and headers.
C9_SubmitRepeatable ==
    [][\A c \in Composers :
          Sends(c) =>
              /\ req'[c].headers = req[c].headers
              /\ req'[c].queries = req[c].queries
              /\ sent[c].has => sent'[c] = sent[c]]_vars

\* C10: once newHttpResponse has returned, with an envelope or with the read error, the
\* raw response's body has been closed exactly once.
C10_BodyClosedOnce ==
    \A c \in Composers : resp[c].st # "none" => resp[c].closes = 1

====
